---- MODULE Spec2Model ----
(***************************************************************************)
(* A model of the file manager of src/src/main.rs: the FileManager state   *)
(* (current_dir, entries), FileManager::read_dir, can_navigate_up, one     *)
(* action per kind of frame of FileManager::update, open_file and          *)
(* format_file_size.                                                       *)
(*                                                                         *)
(* The model is of the linux build (cfg(target_os = "linux")): a PathBuf   *)
(* is the sequence of its components, the root component "/" included, so  *)
(* that the empty PathBuf and relative paths are values of the model too.  *)
(* The filesystem is the environment: every call of fs::read_dir answers   *)
(* with a nondeterministic result drawn from ReadResults.  A panic         *)
(* (an unwrap of None/Err) ends the program: crashed becomes TRUE, the     *)
(* fields keep what the code had assigned before the panicking call, and   *)
(* no action is enabled any more.                                          *)
(***************************************************************************)
EXTENDS Integers, Sequences, FiniteSets, TLC

\* ---------------------------------------------------------------- bounds

\* the most entries one enumeration of a directory returns
MaxEntries == 2

\* the most components a path of the model has below the root
MaxDepth == 2

\* ------------------------------------------------- the environment's names

\* The names the filesystem of the model knows.  What a name is, is fixed:
\*   "d"  a directory, metadata and child enumeration succeed
\*   "f"  a file, metadata succeeds
\*   "g"  a file whose metadata fails
\*   "r"  a directory whose name is not valid UTF-8 and whose child
\*        enumeration fails
\*   "t"  an entry whose file_type() fails
\* An item of the directory iterator that is Err is skipped by line 32 and
\* leaves no trace: an enumeration of the model is the Ok items.
EntryPool == {"d", "f", "g", "r", "t"}

\* the names that may occur as components of the startup directory
DirNames == {"d", "r"}

Root == "/"

None == <<>>

Some(x) == <<x>>

\* OsStr::to_str: None when the bytes are not valid UTF-8
to_str(name) == IF name = "r" THEN None ELSE Some(name)

\* OsString::into_string: Err when the bytes are not valid UTF-8
into_string(name) == IF name = "r" THEN None ELSE Some(name)

\* DirEntry::file_type
file_type(name) ==
  IF name = "t" THEN None
  ELSE IF name \in {"d", "r"} THEN Some("dir") ELSE Some("file")

\* DirEntry::metadata: Some(<<len, day of the modification>>) or None
metadata(name) ==
  IF name \in {"g", "t"} THEN None
  ELSE IF name = "d" THEN Some(<<0, 0>>)
  ELSE IF name = "f" THEN Some(<<1536, 1>>)
  ELSE Some(<<0, 9>>)

\* fs::read_dir(entry.path()).map(|entries| entries.count())
child_count(name) == IF name = "d" THEN Some(3) ELSE None

\* the modification time as the code formats it: days are counted back from
\* today (0 today, 1 yesterday)
format_modified(day) ==
  IF day = 0 THEN "Today at %H:%M"
  ELSE IF day = 1 THEN "Yesterday at %H:%M"
  ELSE "%d/%m/%Y at %H:%M"

\* ------------------------------------------------------------------ paths

\* PathBuf::push / Path::join: an absolute argument replaces the path
push(path, name) == IF name = Root THEN <<Root>> ELSE Append(path, name)

\* parent with the last two components dropped
parent_grand(path) ==
  IF path = <<>> \/ path = <<Root>> THEN None
  ELSE IF Len(path) = 2 THEN Some(<<Root>>)
  ELSE Some(SubSeq(path, 1, Len(path) - 2))

\* Path::parent: None for the root and for the empty path
parent(path) ==
  IF path = <<>> \/ path = <<Root>> THEN None
  ELSE Some(SubSeq(path, 1, Len(path) - 1))

\* the absolute paths of the model
RECURSIVE PathsOfDepth(_)
PathsOfDepth(n) ==
  IF n = 0 THEN {<<Root>>}
  ELSE {Append(p, c) : p \in PathsOfDepth(n - 1), c \in DirNames}

StartDirs == UNION {PathsOfDepth(n) : n \in 0..MaxDepth}

\* ------------------------------------------------------------ read results

\* the sequences of distinct names an enumeration may return
Enumerations ==
  UNION {{s \in [1..n -> EntryPool] : \A i, j \in 1..n : s[i] = s[j] => i = j}
         : n \in 0..MaxEntries}

\* what fs::read_dir(&self.current_dir) answers: Err, or Ok of an enumeration
ReadResults ==
  {[ok |-> FALSE, items |-> <<>>]} \cup {[ok |-> TRUE, items |-> s] : s \in Enumerations}

\* -------------------------------------------------------- format_file_size

\* A u64 is seven digits in base 1024, the least significant first (the
\* seventh is below 16): the model checker's integers are 32 bits wide.
KB == 1024

U64(n) == <<n % KB, n \div KB, 0, 0, 0, 0, 0>>

\* x * 1024 for x below 2^54
Mul1024(x) == <<0>> \o SubSeq(x, 1, 6)

MB == Mul1024(U64(KB))

GB == Mul1024(MB)

TB == Mul1024(GB)

\* a < b on u64, from the most significant digit down
RECURSIVE LtFrom(_, _, _)
LtFrom(a, b, i) ==
  IF i = 0 THEN FALSE
  ELSE IF a[i] # b[i] THEN a[i] < b[i]
  ELSE LtFrom(a, b, i - 1)

Lt(a, b) == LtFrom(a, b, 7)

\* format_file_size with <= where the code has <
format_file_size_le(sz) ==
  IF ~Lt(U64(KB), sz) THEN [num |-> sz, den |-> U64(1), suffix |-> "bytes"]
  ELSE IF ~Lt(MB, sz) THEN [num |-> sz, den |-> U64(KB), suffix |-> "KiB"]
  ELSE IF ~Lt(GB, sz) THEN [num |-> sz, den |-> MB, suffix |-> "MiB"]
  ELSE IF ~Lt(TB, sz) THEN [num |-> sz, den |-> GB, suffix |-> "GiB"]
  ELSE [num |-> sz, den |-> TB, suffix |-> "TiB"]

\* format_file_size: the number printed is num / den ("{}" of the size for
\* bytes, "{:.2}" of the f64 quotient otherwise), followed by the suffix
format_file_size(sz) ==
  IF Lt(sz, U64(KB)) THEN [num |-> sz, den |-> U64(1), suffix |-> "bytes"]
  ELSE IF Lt(sz, MB) THEN [num |-> sz, den |-> U64(KB), suffix |-> "KiB"]
  ELSE IF Lt(sz, GB) THEN [num |-> sz, den |-> MB, suffix |-> "MiB"]
  ELSE IF Lt(sz, TB) THEN [num |-> sz, den |-> GB, suffix |-> "GiB"]
  ELSE [num |-> sz, den |-> TB, suffix |-> "TiB"]

\* the sizes format_file_size is applied to: every digit at its least, at one
\* and at its greatest
U64Samples ==
  {<<a, b, c, d, e, f, g>> :
     a \in {0, 1, KB - 1}, b \in {0, 1, KB - 1}, c \in {0, 1, KB - 1},
     d \in {0, 1, KB - 1}, e \in {0, 1, KB - 1}, f \in {0, 1, KB - 1},
     g \in {0, 1, 15}}

\* ------------------------------------------------------------------ state

VARIABLES
  current_dir,  \* FileManager.current_dir: a PathBuf
  entries,      \* FileManager.entries: a Vec<FileEntry>
  crashed,      \* the program has panicked
  event,        \* the input of the last frame
  row,          \* the row the last frame's click was on (0: not on a row)
  reads,        \* the directories the last frame called FileManager::read_dir on
  listing,      \* the answer fs::read_dir gave to the latest call of read_dir
  spawn,        \* the open command the last frame spawned, with its result
  stderr,       \* the last frame wrote "Failed to open file" to stderr
  ups,          \* the Up clicks since the last frame that was not an Up click
  run_depth,    \* the components below the root when that run of Up clicks began
  size,         \* the argument of format_file_size
  label         \* what format_file_size returned for it

vars ==
  <<current_dir, entries, crashed, event, row, reads, listing, spawn, stderr,
    ups, run_depth, size, label>>

\* --------------------------------------------------- FileManager::read_dir

\* the FileEntry the loop body pushes for an entry (lines 35-63)
FileEntry(name) ==
  LET is_dir == file_type(name) = Some("dir")
      meta == metadata(name)
  IN [name |-> into_string(name)[1],
      is_dir |-> is_dir,
      size |-> IF is_dir
               THEN (IF child_count(name) = None THEN 0 ELSE child_count(name)[1])
               ELSE (IF meta = None THEN 0 ELSE meta[1][1]),
      modified |-> IF meta = None THEN "Unknown" ELSE format_modified(meta[1][2])]

\* the comparison with a and b swapped, a.is_dir.cmp(&b.is_dir)
SortLessSwapped(a, b) == ~a.is_dir /\ b.is_dir

\* the comparison of line 66, b.is_dir.cmp(&a.is_dir), is Less
SortLess(a, b) == a.is_dir /\ ~b.is_dir

\* a stable insertion: x goes before the first element it is Less than
RECURSIVE SortInsert(_, _)
SortInsert(sorted, x) ==
  IF sorted = <<>> THEN <<x>>
  ELSE IF SortLess(x, Head(sorted)) THEN <<x>> \o sorted
  ELSE <<Head(sorted)>> \o SortInsert(Tail(sorted), x)

\* Vec::sort_by (stable) with the comparison of line 66
RECURSIVE sort_by(_)
sort_by(v) ==
  IF v = <<>> THEN <<>>
  ELSE SortInsert(sort_by(SubSeq(v, 1, Len(v) - 1)), v[Len(v)])

\* the loop of lines 31-65 over the Ok items of the iterator: the entries
\* pushed and whether an unwrap (line 33 or 34) panicked
RECURSIVE Collect(_, _)
Collect(items, acc) ==
  IF items = <<>> THEN [entries |-> acc, panicked |-> FALSE]
  ELSE LET it == Head(items) IN
    IF file_type(it) = None THEN [entries |-> acc, panicked |-> TRUE]
    ELSE IF into_string(it) = None THEN [entries |-> acc, panicked |-> TRUE]
    ELSE Collect(Tail(items), Append(acc, FileEntry(it)))

\* FileManager::read_dir on the answer res of fs::read_dir(&self.current_dir)
read_dir(res) ==
  IF ~res.ok THEN [entries |-> <<>>, panicked |-> FALSE]
  ELSE LET c == Collect(res.items, <<>>) IN
    IF c.panicked THEN c
    ELSE [entries |-> sort_by(c.entries), panicked |-> FALSE]

\* can_navigate_up without the test of the parent
can_navigate_up_always(dir) == TRUE

\* FileManager::can_navigate_up
can_navigate_up(dir) == parent(dir) # None

\* ------------------------------------------------------ FileManager::update

\* path_so_far after the breadcrumb loop has handled components 1..k
\* (k is enumerate()'s i + 1)
RECURSIVE path_so_far(_, _)
path_so_far(dir, k) ==
  IF k = 0 THEN <<>>
  ELSE LET prev == path_so_far(dir, k - 1) IN
    IF to_str(dir[k]) = None THEN prev ELSE push(prev, to_str(dir[k])[1])

\* the state a frame leaves
Set(dir, ents, cr, ev, rw, rd, lst, sp, err) ==
  /\ current_dir' = dir
  /\ entries' = ents
  /\ crashed' = cr
  /\ event' = ev
  /\ row' = rw
  /\ reads' = rd
  /\ listing' = lst
  /\ spawn' = sp
  /\ stderr' = err
  /\ ups' = IF ev = "up" THEN ups + 1 ELSE 0
  /\ run_depth' = IF ev = "up" THEN run_depth ELSE Len(dir) - 1
  /\ UNCHANGED <<size, label>>

\* the end of the frame without the re-read of an empty list
FinishNoReread(dir, ents, ev, rw, rd, lst, sp, err) ==
  Set(dir, ents, FALSE, ev, rw, rd, lst, sp, err)

\* the end of the frame, lines 160-162
Finish(dir, ents, ev, rw, rd, lst, sp, err) ==
  IF ents = <<>>
  THEN \E r \in ReadResults :
         LET a == read_dir(r) IN
           Set(dir, a.entries, a.panicked, ev, rw, Append(rd, dir), Some(r), sp, err)
  ELSE Set(dir, ents, FALSE, ev, rw, rd, lst, sp, err)

\* self.current_dir = dir; self.read_dir(); and then the rest of the frame
Navigate(dir, ev, rw) ==
  \E r \in ReadResults :
    LET a == read_dir(r) IN
      IF a.panicked THEN Set(dir, a.entries, TRUE, ev, rw, <<dir>>, Some(r), None, FALSE)
      ELSE Finish(dir, a.entries, ev, rw, <<dir>>, Some(r), None, FALSE)

\* a frame with no click
Tick ==
  /\ ~crashed
  /\ Finish(current_dir, entries, "tick", 0, <<>>, listing, None, FALSE)

\* a frame in which the breadcrumb of component k is clicked (lines 78-94)
BreadcrumbClick(k) ==
  /\ ~crashed
  /\ k \in 1..Len(current_dir)
  /\ to_str(current_dir[k]) # None
  /\ Navigate(path_so_far(current_dir, k), "crumb", 0)

\* a frame in which Up is clicked (lines 97-103)
UpClick ==
  /\ ~crashed
  /\ can_navigate_up(current_dir)
  /\ LET p == parent(current_dir) IN
       IF p # None THEN Navigate(p[1], "up", 0)
       ELSE Finish(current_dir, entries, "up", 0, <<>>, listing, None, FALSE)

\* a frame in which the row of a directory is clicked; dbl: the click is the
\* second of a double click, for which clicked() and double_clicked() both
\* hold (lines 124-128, 130-131, 152-155)
DirClick(j, dbl) ==
  /\ ~crashed
  /\ j \in 1..Len(entries)
  /\ entries[j].is_dir
  /\ Len(current_dir) <= MaxDepth
  /\ LET clicked_dir == push(current_dir, entries[j].name) IN
       Navigate(clicked_dir, IF dbl THEN "dblclick" ELSE "click", j)

\* the click of a row without the test of is_dir: a file is entered too
FileClickEnters(j) ==
  /\ ~crashed
  /\ j \in 1..Len(entries)
  /\ ~entries[j].is_dir
  /\ Len(current_dir) <= MaxDepth
  /\ Navigate(push(current_dir, entries[j].name), "click", j)

\* a frame in which the row of a file is clicked once (lines 124-128)
FileClick(j) ==
  /\ ~crashed
  /\ j \in 1..Len(entries)
  /\ ~entries[j].is_dir
  /\ Finish(current_dir, entries, "click", j, <<>>, listing, None, FALSE)

\* open_file in the linux build (lines 186, 194-197): the argument handed to
\* xdg-open, or None when file_path.to_str() is None and the unwrap panics.
\* (The macos and windows builds pass the path itself and have no unwrap.)
open_file_arg(dir, file_name) ==
  LET file_path == push(dir, file_name) IN
    IF \E i \in 1..Len(file_path) : to_str(file_path[i]) = None
    THEN None
    ELSE Some(file_path)

\* a frame in which the row of a file is double-clicked (lines 130-138);
\* ok: Command::spawn succeeded
FileDoubleClick(j) ==
  /\ ~crashed
  /\ j \in 1..Len(entries)
  /\ ~entries[j].is_dir
  /\ LET arg == open_file_arg(current_dir, entries[j].name) IN
       IF arg = None
       THEN Set(current_dir, entries, TRUE, "dblclick", j, <<>>, listing, None, FALSE)
       ELSE \E ok \in BOOLEAN :
              Finish(current_dir, entries, "dblclick", j, <<>>, listing,
                     Some([path |-> arg[1], ok |-> ok]), ~ok)

\* FileManager::default (lines 18-25), for a startup directory that
\* std::env::current_dir() returned (when it returns Err the unwrap of line
\* 21 panics before there is any state)
Init ==
  /\ current_dir \in StartDirs
  /\ entries = <<>>
  /\ crashed = FALSE
  /\ event = "launch"
  /\ row = 0
  /\ reads = <<>>
  /\ listing = None
  /\ spawn = None
  /\ stderr = FALSE
  /\ ups = 0
  /\ run_depth = Len(current_dir) - 1
  /\ size = U64(0)
  /\ label = None

Next ==
  \/ Tick
  \/ \E k \in 1..(MaxDepth + 1) : BreadcrumbClick(k)
  \/ UpClick
  \/ \E j \in 1..MaxEntries, dbl \in BOOLEAN : DirClick(j, dbl)
  \/ \E j \in 1..MaxEntries : FileClick(j)
  \/ \E j \in 1..MaxEntries : FileDoubleClick(j)

Spec == Init /\ [][Next]_vars

\* ---------------------------------- format_file_size on its own: every size

\* the row label of line 144 for a file of the given size
Format ==
  /\ label = None
  /\ label' = Some(format_file_size(size))
  /\ UNCHANGED <<current_dir, entries, crashed, event, row, reads, listing, spawn,
                 stderr, ups, run_depth, size>>

InitFmt ==
  /\ current_dir = <<Root>>
  /\ entries = <<>>
  /\ crashed = FALSE
  /\ event = "launch"
  /\ row = 0
  /\ reads = <<>>
  /\ listing = None
  /\ spawn = None
  /\ stderr = FALSE
  /\ ups = 0
  /\ run_depth = 0
  /\ size \in U64Samples
  /\ label = None

NextFmt == Format

SpecFmt == InitFmt /\ [][NextFmt]_vars

\* ------------------------------------------------------------- the claims

\* the path is absolute: it begins with the root component
is_absolute(path) == path # <<>> /\ Head(path) = Root

\* the components of the path below the root
Below(path) == Len(path) - 1

IsPrefix(p, q) == Len(p) <= Len(q) /\ SubSeq(q, 1, Len(p)) = p

NamesOf(ents) == [i \in 1..Len(ents) |-> ents[i].name]

DirsOf(ents) == SelectSeq(ents, LAMBDA e : e.is_dir)

FilesOf(ents) == SelectSeq(ents, LAMBDA e : ~e.is_dir)

\* the frame that leads to the next state had a navigation event: a click on
\* a breadcrumb, on Up or on the row of a directory
NavFrame ==
  \/ event' \in {"crumb", "up"}
  \/ /\ event' \in {"click", "dblclick"}
     /\ row' \in 1..Len(entries)
     /\ entries[row'].is_dir

C2_UpOnlyBelowRoot ==
  [][/\ (ENABLED UpClick) <=> (~crashed /\ current_dir # <<Root>>)
     /\ event' = "up" =>
          /\ current_dir # <<Root>>
          /\ current_dir' = SubSeq(current_dir, 1, Len(current_dir) - 1)]_vars

\* Up has been clicked and has arrived at the root
C2_UpReachedRoot == event = "up" /\ current_dir = <<Root>> /\ ~crashed

\* C3 as stated: a double click on the row of a directory sets current_dir
\* to current_dir joined with the entry's name, and current_dir is changed by
\* no event other than a click on a breadcrumb, a click on Up or such a
\* double click.
C3_OnlyDoubleClickEnters ==
  [][/\ (/\ event' = "dblclick"
         /\ row' \in 1..Len(entries)
         /\ entries[row'].is_dir)
        => current_dir' = Append(current_dir, entries[row'].name)
     /\ current_dir' # current_dir =>
          \/ event' \in {"crumb", "up"}
          \/ /\ event' = "dblclick"
             /\ row' \in 1..Len(entries)
             /\ entries[row'].is_dir]_vars

\* C3 amended: a click on the row of a directory (the single click, and each
\* click of a double click) sets current_dir to current_dir joined with the
\* entry's name, and current_dir is changed by no event other than a click on
\* a breadcrumb, on Up or on the row of a directory.
C3_ClickEnters ==
  [][/\ current_dir' # current_dir => NavFrame
     /\ (/\ event' \in {"click", "dblclick"}
         /\ row' \in 1..Len(entries)
         /\ entries[row'].is_dir)
        => current_dir' = Append(current_dir, entries[row'].name)]_vars

\* a single click on the row of a directory has entered it
C3_EnteredBySingleClick ==
  /\ event = "click"
  /\ reads # <<>>
  /\ ~crashed
  /\ Len(current_dir) > 1
  /\ current_dir[Len(current_dir)] = "d"

\* C4 as stated: after every navigation event the entry list holds exactly
\* the entries the latest enumeration of the new current_dir returned, and is
\* empty when that read failed.
C4_RebuiltOnNavigation ==
  [][NavFrame =>
       /\ listing' # None
       /\ reads' # <<>>
       /\ reads'[Len(reads')] = current_dir'
       /\ Len(entries') = Len(listing'[1].items)
       /\ {entries'[i].name : i \in 1..Len(entries')}
            = {listing'[1].items[i] : i \in 1..Len(listing'[1].items)}]_vars

\* C5 as stated: no filesystem error ends the program; an entry whose
\* metadata cannot be read is listed with size 0 and the timestamp "Unknown",
\* and a failed spawn is logged.
C5_ErrorsNeverCrash ==
  /\ ~crashed
  /\ \A i \in 1..Len(entries) :
       metadata(entries[i].name) = None =>
         /\ entries[i].modified = "Unknown"
         /\ ~entries[i].is_dir => entries[i].size = 0
  /\ (spawn # None /\ ~spawn[1].ok) => stderr

\* C6 as stated: a double click on the row of a file spawns the open command
\* on current_dir joined with the entry's name and leaves current_dir and the
\* entry list as they were; the command is spawned for nothing else.
C6_DoubleClickOpensFile ==
  [][/\ (/\ event' = "dblclick"
         /\ row' \in 1..Len(entries)
         /\ ~entries[row'].is_dir)
        => /\ spawn' # None
           /\ spawn'[1].path = Append(current_dir, entries[row'].name)
           /\ current_dir' = current_dir
           /\ entries' = entries
     /\ spawn' # None =>
          /\ event' = "dblclick"
          /\ row' \in 1..Len(entries)
          /\ ~entries[row'].is_dir]_vars

\* the greatest index of a digit of sz that is not 0 (0 for the size 0):
\* sz < 1024^k exactly when Top(sz) <= k
Top(sz) ==
  LET nz == {i \in 1..7 : sz[i] # 0} IN
    IF nz = {} THEN 0 ELSE CHOOSE i \in nz : \A j \in nz : j <= i

\* C7: the suffix is chosen by the thresholds 1024, 1024^2, 1024^3, 1024^4,
\* a size equal to a threshold taking the larger unit.
C7_SuffixByThreshold ==
  label # None =>
    /\ label[1].num = size
    /\ label[1].suffix =
         (IF Top(size) <= 1 THEN "bytes"
          ELSE IF Top(size) = 2 THEN "KiB"
          ELSE IF Top(size) = 3 THEN "MiB"
          ELSE IF Top(size) = 4 THEN "GiB"
          ELSE "TiB")

\* the size 1024^2 has been formatted
C7_ExactPowerFormatted ==
  /\ label # None
  /\ size = <<0, 0, 1, 0, 0, 0, 0>>
  /\ label[1].suffix = "MiB"

\* C8 as stated: current_dir is always absolute, and a click on a breadcrumb
\* sets it to the current directory or to one of its ancestors.
C8_AbsoluteAncestor ==
  [][/\ is_absolute(current_dir')
     /\ event' = "crumb" => IsPrefix(current_dir', current_dir)]_vars

C10_UpCountsDown ==
  event = "up" =>
    /\ ups <= run_depth
    /\ Below(current_dir) = run_depth - ups
    /\ can_navigate_up(current_dir) <=> ups < run_depth
    /\ ups = run_depth => current_dir = <<Root>>

\* two Up clicks in a row have led from two components below the root to it
C10_TwoUpsToRoot ==
  /\ event = "up"
  /\ ups = 2
  /\ run_depth = 2
  /\ current_dir = <<Root>>
  /\ ~can_navigate_up(current_dir)

====
